---- MODULE Spec2Model ----
(***************************************************************************)
(* A state-machine model of mono/mini/liveness.c: mono_analyze_liveness    *)
(* on the flat IR (cfg->new_ir set) and on the tree IR (cfg->new_ir        *)
(* clear), with no aliasing collaborator attached.                         *)
(* The arena the bit sets are carved from is a function from slot numbers  *)
(* (units of bitsize bytes) to sets of variable indexes; a MonoBitSet * is *)
(* the number of its slot, NULL when it is not carved.                     *)
(***************************************************************************)
EXTENDS Integers, Sequences, FiniteSets, TLC

(***************************************************************************)
(* Bounds of the model.                                                    *)
(***************************************************************************)
MaxBlocks == 4
MaxEdges == 4
MaxVars == 1
MaxInitInsns == 2
MaxScanInsns == 3

(***************************************************************************)
(* Program constants.                                                      *)
(***************************************************************************)
\* (block_dfn << 16): the shift of a block's dfn in an absolute position
PosShift == 16
\* abs_pos + 0xffff: the position "live at block exit"
BlockExitOffset == 65535
\* ~ 0 in a guint32 (abs_pos, spill_costs).  A guint32 is held as the 32-bit
\* two's complement integer with the same bits: 0 .. 2^31 - 1 stand for
\* themselves and 2^31 .. 2^32 - 1 for x - 2^32, so that ~ 0 is -1, 0 - 1
\* wraps to ~ 0 and ~ 0 + 1 wraps to 0 by ordinary arithmetic.
AllOnes == -1
\* BITS_PER_CHUNK with SIZEOF_VOID_P == 8
BITS_PER_CHUNK == 64

Pow2(n) == 2 ^ n

\* a < b on guint32 values
ULess(a, b) == IF (a < 0) = (b < 0) THEN a < b ELSE b < 0
ULessEq(a, b) == a = b \/ ULess(a, b)

NULL == -1

Range(s) == {s[i] : i \in 1..Len(s)}

RECURSIVE SortedSeq(_)
SortedSeq(S) ==
  IF S = {} THEN <<>>
  ELSE LET m == CHOOSE x \in S : \A y \in S : x <= y
       IN <<m>> \o SortedSeq(S \ {m})

(***************************************************************************)
(* Instructions of the flat IR: an opcode, a destination vreg, two source  *)
(* vregs (-1 when absent) and, for OP_LDADDR, the variable whose address   *)
(* is taken (inst_p0, -1 otherwise).                                       *)
(***************************************************************************)
Ins(op, d, s1, s2, p) == [opcode |-> op, dreg |-> d, sreg1 |-> s1, sreg2 |-> s2, inst_p0 |-> p]

\* The opcode descriptor: which operand slots an opcode has.
INS_INFO(opcode) ==
  CASE opcode = "OP_NOP"                -> [dest |-> FALSE, src1 |-> FALSE, src2 |-> FALSE]
    [] opcode = "OP_ICONST"             -> [dest |-> TRUE,  src1 |-> FALSE, src2 |-> FALSE]
    [] opcode = "OP_I8CONST"            -> [dest |-> TRUE,  src1 |-> FALSE, src2 |-> FALSE]
    [] opcode = "OP_R8CONST"            -> [dest |-> TRUE,  src1 |-> FALSE, src2 |-> FALSE]
    [] opcode = "OP_LDADDR"             -> [dest |-> TRUE,  src1 |-> FALSE, src2 |-> FALSE]
    [] opcode = "OP_MOVE"               -> [dest |-> TRUE,  src1 |-> TRUE,  src2 |-> FALSE]
    [] opcode = "OP_IADD"               -> [dest |-> TRUE,  src1 |-> TRUE,  src2 |-> TRUE]
    [] opcode = "OP_COMPARE"            -> [dest |-> FALSE, src1 |-> TRUE,  src2 |-> TRUE]
    [] opcode = "OP_STORE_MEMBASE_REG"  -> [dest |-> TRUE,  src1 |-> TRUE,  src2 |-> FALSE]

MONO_IS_STORE_MEMBASE(ins) == ins.opcode = "OP_STORE_MEMBASE_REG"

\* The no-op an eliminated instruction is replaced by.
NULLIFY_INS(ins) == Ins("OP_NOP", -1, -1, -1, -1)

\* vreg r belongs to variable r - 1 when 1 <= r <= num_varinfo; every other
\* vreg is an untracked temporary (get_vreg_to_inst returns NULL: -1 here).
get_vreg_to_inst(nv, r) == IF r >= 1 /\ r <= nv THEN r - 1 ELSE -1

VregOf(idx) == idx + 1

\* MONO_BBLOCK_IS_IN_REGION (bb, MONO_REGION_TRY) on the region tag
InTryRegion(tag) == tag = "try"

(***************************************************************************)
(* The state.  cfg holds what earlier passes built and this analysis only  *)
(* reads: num_bblocks, num_varinfo, and per block dfn, out_bb, in_bb,      *)
(* region, nesting; per variable is_arg and indirect; ret, the index of    *)
(* the return variable (-1 when there is none).  Blocks are named by their *)
(* index in cfg->bblocks, which is also the order of the next_bb chain:    *)
(* block 0 is cfg->bb_entry and block 1 is bb_entry->next_bb.              *)
(* pushes, visited, widened and runs record what happened: the blocks      *)
(* pushed again after the seeding, the visited list of the flood, the      *)
(* variable indexes the boundary widening passed to update_live_range2,    *)
(* the calls that got past the entry assertion (counted up to 2), and the  *)
(* blocks with successors the solver has taken from the worklist.          *)
(***************************************************************************)
VARIABLES cfg, code, comp_done, arena, gen_set, kill_set, live_in_set, live_out_set,
          mem, vars, volatile, worklist, in_worklist, pc,
          pushes, visited, widened, runs, processed

vars_all == <<cfg, code, comp_done, arena, gen_set, kill_set, live_in_set, live_out_set,
              mem, vars, volatile, worklist, in_worklist, pc,
              pushes, visited, widened, runs, processed>>

Blocks == 0 .. cfg.num_bblocks - 1
Vars == 0 .. cfg.num_varinfo - 1

\* the bits of the set p points to
Deref(p) == arena[p]

(***************************************************************************)
(* Live ranges and the per-block gen/kill scan.                            *)
(***************************************************************************)
update_live_range2(vs, idx, abs_pos) ==
  [vs EXCEPT ![idx].first_use = IF ULess(abs_pos, @) THEN abs_pos ELSE @,
              ![idx].last_use  = IF ULess(@, abs_pos) THEN abs_pos ELSE @]

\* mutant: the nesting depth is not doubled
SpillCostSingleShift(nesting) == Pow2(nesting)

\* #define SPILL_COST_INCREMENT (1 << (bb->nesting << 1))
SPILL_COST_INCREMENT(nesting) == Pow2(nesting * 2)

AddSpill(vs, idx, inc) ==
  [vs EXCEPT ![idx].spill_costs = @ + inc]

\* mutant: a use enters gen whether the variable is killed or not
GenEventNoKillTest(st, idx, pos, inc) ==
  [gen  |-> st.gen \cup {idx},
   kill |-> st.kill,
   vs   |-> AddSpill(update_live_range2(st.vs, idx, pos), idx, inc)]

\* a use: widen the range, gen unless already killed, add the spill cost
GenEvent(st, idx, pos, inc) ==
  [gen  |-> IF idx \notin st.kill THEN st.gen \cup {idx} ELSE st.gen,
   kill |-> st.kill,
   vs   |-> AddSpill(update_live_range2(st.vs, idx, pos), idx, inc)]

\* mutant: a definition does not widen the range
KillEventNoRange(st, idx, pos, inc) ==
  [gen  |-> st.gen,
   kill |-> st.kill \cup {idx},
   vs   |-> AddSpill(st.vs, idx, inc)]

\* mutant: a definition adds nothing to the spill cost
KillEventNoSpill(st, idx, pos, inc) ==
  [gen  |-> st.gen,
   kill |-> st.kill \cup {idx},
   vs   |-> update_live_range2(st.vs, idx, pos)]

\* a plain definition: widen the range, kill, add the spill cost
KillEvent(st, idx, pos, inc) ==
  [gen  |-> st.gen,
   kill |-> st.kill \cup {idx},
   vs   |-> AddSpill(update_live_range2(st.vs, idx, pos), idx, inc)]

\* mutant: the destination is handled before the sources
ScanInsDestFirst(st, ins, nv, abs_pos, inst_num, inc) ==
  IF ins.opcode = "OP_NOP" THEN st
  ELSE
    LET spec == INS_INFO(ins.opcode)
        d0 == IF spec.dest /\ ins.dreg # -1 /\ get_vreg_to_inst(nv, ins.dreg) # -1
              THEN IF MONO_IS_STORE_MEMBASE(ins)
                   THEN GenEvent(st, get_vreg_to_inst(nv, ins.dreg), abs_pos + inst_num, inc)
                   ELSE KillEvent(st, get_vreg_to_inst(nv, ins.dreg),
                                  abs_pos + inst_num + 1, inc)
              ELSE st
        s0 == IF ins.opcode = "OP_LDADDR"
              THEN GenEvent(d0, ins.inst_p0, abs_pos + inst_num, inc)
              ELSE d0
        s1 == IF spec.src1 /\ ins.sreg1 # -1 /\ get_vreg_to_inst(nv, ins.sreg1) # -1
              THEN GenEvent(s0, get_vreg_to_inst(nv, ins.sreg1), abs_pos + inst_num, inc)
              ELSE s0
    IN IF spec.src2 /\ ins.sreg2 # -1 /\ get_vreg_to_inst(nv, ins.sreg2) # -1
       THEN GenEvent(s1, get_vreg_to_inst(nv, ins.sreg2), abs_pos + inst_num, inc)
       ELSE s1

\* one iteration of the loop of analyze_liveness_bb
ScanIns(st, ins, nv, abs_pos, inst_num, inc) ==
  IF ins.opcode = "OP_NOP" THEN st
  ELSE
    LET spec == INS_INFO(ins.opcode)
        s0 == IF ins.opcode = "OP_LDADDR"
              THEN GenEvent(st, ins.inst_p0, abs_pos + inst_num, inc)
              ELSE st
        s1 == IF spec.src1 /\ ins.sreg1 # -1 /\ get_vreg_to_inst(nv, ins.sreg1) # -1
              THEN GenEvent(s0, get_vreg_to_inst(nv, ins.sreg1), abs_pos + inst_num, inc)
              ELSE s0
        s2 == IF spec.src2 /\ ins.sreg2 # -1 /\ get_vreg_to_inst(nv, ins.sreg2) # -1
              THEN GenEvent(s1, get_vreg_to_inst(nv, ins.sreg2), abs_pos + inst_num, inc)
              ELSE s1
    IN IF spec.dest /\ ins.dreg # -1 /\ get_vreg_to_inst(nv, ins.dreg) # -1
       THEN IF MONO_IS_STORE_MEMBASE(ins)
            THEN GenEvent(s2, get_vreg_to_inst(nv, ins.dreg), abs_pos + inst_num, inc)
            ELSE KillEvent(s2, get_vreg_to_inst(nv, ins.dreg), abs_pos + inst_num + 1, inc)
       ELSE s2

RECURSIVE ScanFrom(_, _, _, _, _, _)
ScanFrom(st, insns, i, nv, abs_pos, inc) ==
  IF i > Len(insns) THEN st
  ELSE ScanFrom(ScanIns(st, insns[i], nv, abs_pos, 2 * (i - 1), inc),
                insns, i + 1, nv, abs_pos, inc)

\* analyze_liveness_bb on block bb, starting from the variable table vs
analyze_liveness_bb(bb, ar, vs) ==
  ScanFrom([gen |-> ar[gen_set[bb]], kill |-> ar[kill_set[bb]], vs |-> vs],
           code[bb], 1, cfg.num_varinfo,
           cfg.dfn[bb] * Pow2(PosShift),
           SPILL_COST_INCREMENT(cfg.nesting[bb]))

(***************************************************************************)
(* The tree IR (cfg->new_ir clear): a statement is a tree of nodes, each   *)
(* with an opcode, an ssa_op (the set of its MONO_SSA_ flags), up to two   *)
(* children inst_i0 and inst_i1 (as many as the arity of the opcode) and,  *)
(* for a variable node, the variable's index inst_c0.                      *)
(***************************************************************************)
Tree(op, ssa, i0, i1, c0) ==
  [opcode |-> op, ssa_op |-> ssa, inst_i0 |-> i0, inst_i1 |-> i1, inst_c0 |-> c0]

\* the number of children of a node
mono_burg_arity(opcode) ==
  CASE opcode = "OP_LOCAL"       -> 0
    [] opcode = "OP_ICONST"      -> 0
    [] opcode = "CEE_JMP"        -> 0
    [] opcode = "OP_DUMMY_STORE" -> 0
    [] opcode = "CEE_LDIND_I4"   -> 1
    [] opcode = "OP_SETRET"      -> 1
    [] opcode = "CEE_ADD"        -> 2
    [] opcode = "CEE_STIND_I4"   -> 2

\* inst->ssa_op & MONO_SSA_LOAD_STORE, inst->ssa_op & MONO_SSA_LOAD
MONO_SSA_LOAD_STORE == {"LOAD", "STORE"}
MONO_SSA_LOAD == {"LOAD"}
MONO_SSA_STORE == {"STORE"}

update_live_range(vs, idx, block_dfn, tree_pos) ==
  LET abs_pos == block_dfn * Pow2(PosShift) + tree_pos
  IN [vs EXCEPT ![idx].first_use = IF ULess(abs_pos, @) THEN abs_pos ELSE @,
                 ![idx].last_use  = IF ULess(@, abs_pos) THEN abs_pos ELSE @]

\* the variables a load or store node affects when no aliasing information
\* is attached: the one its first child names, or none
AffectedVariables(inst) ==
  IF inst.ssa_op = MONO_SSA_LOAD \/ inst.ssa_op = MONO_SSA_STORE
     \/ inst.opcode = "OP_DUMMY_STORE"
  THEN {inst.inst_i0.inst_c0}
  ELSE {}

\* variables used in a block of an exception region that is no try body
\* become volatile during the scan
RegionVolatile(bb, vol, idx) ==
  IF cfg.region[bb] # "none" /\ ~InTryRegion(cfg.region[bb]) THEN vol \cup {idx} ELSE vol

\* the load branch for one affected variable
TreeLoad(st, inst, bb, idx, inst_num) ==
  [gen  |-> IF idx \notin st.kill THEN st.gen \cup {idx} ELSE st.gen,
   kill |-> st.kill,
   vs   |-> LET r == update_live_range(st.vs, idx, cfg.dfn[bb], inst_num)
            IN IF inst.ssa_op = MONO_SSA_LOAD
               THEN AddSpill(r, idx, SPILL_COST_INCREMENT(cfg.nesting[bb]))
               ELSE r,
   vol  |-> RegionVolatile(bb, st.vol, idx)]

\* the store branch for one affected variable
TreeStore(st, inst, bb, idx, inst_num) ==
  [gen  |-> st.gen,
   kill |-> st.kill \cup {idx},
   vs   |-> LET r == update_live_range(st.vs, idx, cfg.dfn[bb], inst_num)
            IN IF inst.ssa_op = MONO_SSA_STORE
               THEN AddSpill(r, idx, SPILL_COST_INCREMENT(cfg.nesting[bb]))
               ELSE r,
   vol  |-> RegionVolatile(bb, st.vol, idx)]

\* CEE_JMP: every argument not killed enters gen
KeepArgumentsLive(st, bb, inst_num) ==
  [st EXCEPT !.gen = @ \cup {i \in Vars : cfg.is_arg[i] /\ i \notin st.kill}]

\* update_gen_kill_set on one node, its children first
RECURSIVE update_gen_kill_set(_, _, _, _)
update_gen_kill_set(st, bb, inst, inst_num) ==
  LET arity == mono_burg_arity(inst.opcode)
      s0 == IF arity > 0 THEN update_gen_kill_set(st, bb, inst.inst_i0, inst_num) ELSE st
      s1 == IF arity > 1 THEN update_gen_kill_set(s0, bb, inst.inst_i1, inst_num) ELSE s0
  IN IF inst.ssa_op \cap MONO_SSA_LOAD_STORE # {} \/ inst.opcode = "OP_DUMMY_STORE"
     THEN IF inst.ssa_op \cap MONO_SSA_LOAD # {}
          THEN IF AffectedVariables(inst) = {} THEN s1
               ELSE TreeLoad(s1, inst, bb, inst.inst_i0.inst_c0, inst_num)
          ELSE IF inst.ssa_op = MONO_SSA_STORE \/ inst.opcode = "OP_DUMMY_STORE"
               THEN IF AffectedVariables(inst) = {} THEN s1
                    ELSE TreeStore(s1, inst, bb, inst.inst_i0.inst_c0, inst_num)
               ELSE s1
     ELSE IF inst.opcode = "CEE_JMP" THEN KeepArgumentsLive(s1, bb, inst_num)
     ELSE s1

\* for (tree_num = 0, inst = bb->code; inst; inst = inst->next, tree_num++)
RECURSIVE TreeScanFrom(_, _, _)
TreeScanFrom(st, bb, i) ==
  IF i > Len(code[bb]) THEN st
  ELSE TreeScanFrom(update_gen_kill_set(st, bb, code[bb][i], i - 1), bb, i + 1)

\* the loop over cfg->bblocks that fills gen_set and kill_set
RECURSIVE ScanBlocks(_, _)
ScanBlocks(i, acc) ==
  IF i >= cfg.num_bblocks THEN acc
  ELSE IF cfg.new_ir
  THEN LET r == analyze_liveness_bb(i, acc.ar, acc.vs)
       IN ScanBlocks(i + 1, [ar |-> [acc.ar EXCEPT ![gen_set[i]] = r.gen,
                                                   ![kill_set[i]] = r.kill],
                             vs |-> r.vs, vol |-> acc.vol])
  ELSE LET r == TreeScanFrom([gen |-> acc.ar[gen_set[i]], kill |-> acc.ar[kill_set[i]],
                              vs |-> acc.vs, vol |-> acc.vol], i, 1)
       IN ScanBlocks(i + 1, [ar |-> [acc.ar EXCEPT ![gen_set[i]] = r.gen,
                                                   ![kill_set[i]] = r.kill],
                             vs |-> r.vs, vol |-> r.vol])

(***************************************************************************)
(* The backward fixpoint solver.                                           *)
(***************************************************************************)
\* mutant: the kill set is not subtracted
LiveInNoKill(out, kill, gen) == out \cup gen

\* copyto (live_out, live_in); sub (live_in, kill); union (live_in, gen)
LiveInOf(out, kill, gen) == (out \ kill) \cup gen

\* mono_bitset_union_fast (bb->live_out_set, out_bb->live_in_set)
FoldLiveOut(out, in) == out \cup in

\* mutant: the arena pointer is not advanced past a carved live_in
CarveNoAdvance(m) == m

\* mem += bitsize, after a live_in set is carved at mem
CarveNext(m) == m + 1

\* a live_in set carved at the arena pointer for block b and filled from
\* b's live_out, kill and gen; s holds the live_in pointers, the arena and mem
CarveLiveIn(b, s) ==
  [li  |-> [s.li EXCEPT ![b] = s.mem],
   ar  |-> [s.ar EXCEPT ![s.mem] = LiveInOf(s.ar[live_out_set[b]], s.ar[kill_set[b]],
                                            s.ar[gen_set[b]])],
   mem |-> CarveNext(s.mem)]

\* the loop over bb->out_bb: lazily carve a successor's live_in, fold it in
RECURSIVE FoldSuccs(_, _, _)
FoldSuccs(bb, j, s) ==
  IF j > Len(cfg.out_bb[bb]) THEN s
  ELSE
    LET o  == cfg.out_bb[bb][j]
        s1 == IF s.li[o] = NULL THEN CarveLiveIn(o, s) ELSE s
        s2 == [s1 EXCEPT !.ar[live_out_set[bb]] = FoldLiveOut(@, s1.ar[s1.li[o]])]
    IN FoldSuccs(bb, j + 1, s2)

\* mutant: the block's own live_in is carved anew on every pass
UpdateLiveInRecarve(bb, s) == CarveLiveIn(bb, s)

\* the block's own live_in: carved on its first pass, then recomputed in place
UpdateLiveIn(bb, s) ==
  IF s.li[bb] = NULL THEN CarveLiveIn(bb, s)
  ELSE [s EXCEPT !.ar[s.li[bb]] = LiveInOf(s.ar[live_out_set[bb]], s.ar[kill_set[bb]],
                                           s.ar[gen_set[bb]])]

\* the cleanup loop over cfg->bblocks
RECURSIVE CleanupFrom(_, _)
CleanupFrom(i, s) ==
  IF i >= cfg.num_bblocks THEN s
  ELSE IF s.li[i] = NULL THEN CleanupFrom(i + 1, CarveLiveIn(i, s))
  ELSE CleanupFrom(i + 1, s)

\* mutant: only a block's first pass recomputes live_in and pushes
NeedsUpdateFirstOnly(changed, old, new) == changed

\* mutant: every pass counts as a change
NeedsUpdateAlways(changed, old, new) == TRUE

\* if (changed || !mono_bitset_equal (old_live_out_set, bb->live_out_set))
NeedsUpdate(changed, old, new) == changed \/ old # new

\* mutant: a predecessor is pushed whether it is pending or not
MayPushPending(in_bb, inw) == gen_set[in_bb] # NULL

\* if (in_bb->gen_set && !in_worklist [in_bb->dfn])
MayPush(in_bb, inw) == gen_set[in_bb] # NULL /\ ~inw[cfg.dfn[in_bb]]

\* mutant: the block is put at the bottom of the stack
PushBottom(wl, in_bb) == <<in_bb>> \o wl

\* worklist [l_end ++] = in_bb: the block is put at the top of the stack
PushTop(wl, in_bb) == Append(wl, in_bb)

\* the loop over bb->in_bb that re-queues the predecessors
RECURSIVE PushPreds(_, _, _)
PushPreds(bb, j, w) ==
  IF j > Len(cfg.in_bb[bb]) THEN w
  ELSE
    LET in_bb == cfg.in_bb[bb][j]
    IN IF MayPush(in_bb, w.inw)
       THEN PushPreds(bb, j + 1,
              [wl  |-> PushTop(w.wl, in_bb),
               inw |-> [w.inw EXCEPT ![cfg.dfn[in_bb]] = TRUE],
               n   |-> w.n + 1])
       ELSE PushPreds(bb, j + 1, w)

(***************************************************************************)
(* Boundary widening of the live ranges, chunk by chunk.                   *)
(***************************************************************************)
\* mono_bitset_get_fast (set, j): chunk j of a bit set, as bit offsets
ChunkOf(S, j) ==
  {k - j * BITS_PER_CHUNK : k \in {x \in S : /\ x >= j * BITS_PER_CHUNK
                                             /\ x < (j + 1) * BITS_PER_CHUNK}}

\* bits >>= 1
ShiftRight(bits) == {x - 1 : x \in bits \ {0}}

\* while ((bits_in || bits_out)) { ... k ++; }
RECURSIVE WidenBits(_, _, _, _, _)
WidenBits(w, bits_in, bits_out, k, abs_pos) ==
  IF bits_in = {} /\ bits_out = {} THEN w
  ELSE
    LET v1 == IF 0 \in bits_in THEN update_live_range2(w.vs, k, abs_pos) ELSE w.vs
        v2 == IF 0 \in bits_out
              THEN update_live_range2(v1, k, abs_pos + BlockExitOffset)
              ELSE v1
        t  == IF 0 \in bits_in \/ 0 \in bits_out THEN w.touched \cup {k} ELSE w.touched
    IN WidenBits([vs |-> v2, touched |-> t], ShiftRight(bits_in), ShiftRight(bits_out),
                 k + 1, abs_pos)

\* for (j = 0; j < max; ++j)
RECURSIVE WidenChunks(_, _, _, _)
WidenChunks(w, bb, j, max) ==
  IF j >= max THEN w
  ELSE WidenChunks(WidenBits(w, ChunkOf(Deref(live_in_set[bb]), j),
                             ChunkOf(Deref(live_out_set[bb]), j),
                             j * BITS_PER_CHUNK,
                             cfg.dfn[bb] * Pow2(PosShift)),
                   bb, j + 1, max)

\* mutant: the chunk count is rounded down
NumChunksRoundedDown(max_vars) == max_vars \div BITS_PER_CHUNK

\* max = ((max_vars + (BITS_PER_CHUNK -1)) / BITS_PER_CHUNK)
NumChunks(max_vars) == (max_vars + (BITS_PER_CHUNK - 1)) \div BITS_PER_CHUNK

\* the loop over cfg->bblocks that widens the ranges to the block boundaries
RECURSIVE WidenBlocks(_, _)
WidenBlocks(i, w) ==
  IF i >= cfg.num_bblocks THEN w
  ELSE IF live_out_set[i] = NULL THEN WidenBlocks(i + 1, w)
  ELSE WidenBlocks(i + 1,
         WidenChunks(w, i, 0, NumChunks(cfg.num_varinfo)))

(***************************************************************************)
(* The exception-region flood.                                             *)
(***************************************************************************)
\* the variables visit_bb marks for one instruction: DREG, then both SREGs
InsVolatileVars(ins) ==
  IF ins.opcode = "OP_NOP" THEN {}
  ELSE {get_vreg_to_inst(cfg.num_varinfo, r) :
          r \in {x \in {ins.dreg, ins.sreg1, ins.sreg2} :
                   x # -1 /\ get_vreg_to_inst(cfg.num_varinfo, x) # -1}}

\* update_volatile on one node, its children first
RECURSIVE update_volatile(_)
update_volatile(inst) ==
  LET arity == mono_burg_arity(inst.opcode)
  IN (IF arity > 0 THEN update_volatile(inst.inst_i0) ELSE {})
     \cup (IF arity > 1 THEN update_volatile(inst.inst_i1) ELSE {})
     \cup (IF inst.ssa_op \cap MONO_SSA_LOAD_STORE # {}
              /\ (inst.ssa_op = MONO_SSA_LOAD \/ inst.ssa_op = MONO_SSA_STORE)
           THEN {inst.inst_i0.inst_c0} ELSE {})

BlockVolatileVars(bb) ==
  IF cfg.new_ir
  THEN UNION {InsVolatileVars(code[bb][i]) : i \in 1..Len(code[bb])}
  ELSE UNION {update_volatile(code[bb][i]) : i \in 1..Len(code[bb])}

RECURSIVE visit_bb(_, _)
RECURSIVE VisitSuccs(_, _, _)
visit_bb(bb, st) ==
  IF bb \in Range(st.visited) THEN st
  ELSE VisitSuccs(bb, 1, [visited |-> Append(st.visited, bb),
                          vol     |-> st.vol \cup BlockVolatileVars(bb)])

VisitSuccs(bb, i, st) ==
  IF i > Len(cfg.out_bb[bb]) THEN st
  ELSE VisitSuccs(bb, i + 1, visit_bb(cfg.out_bb[bb][i], st))

\* mutant: try bodies are flooded from too
IsFloodRootAnyRegion(bb) == cfg.region[bb] # "none"

\* if (bb->region == -1 || MONO_BBLOCK_IS_IN_REGION (bb, MONO_REGION_TRY)) continue;
IsFloodRoot(bb) == ~(cfg.region[bb] = "none" \/ InTryRegion(cfg.region[bb]))

\* the loop of handle_exception_clauses over the next_bb chain
RECURSIVE FloodFrom(_, _)
FloodFrom(bb, st) ==
  IF bb >= cfg.num_bblocks THEN st
  ELSE IF IsFloodRoot(bb) THEN FloodFrom(bb + 1, visit_bb(bb, st))
  ELSE FloodFrom(bb + 1, st)

handle_exception_clauses == FloodFrom(0, [visited |-> <<>>, vol |-> {}])

(***************************************************************************)
(* Dead initializer elimination.                                           *)
(***************************************************************************)
initlocals_bb == 1

\* the vregs the first loop of optimize_initlocals records in `used'
UsedOfIns(ins) ==
  (IF INS_INFO(ins.opcode).src1 THEN {ins.sreg1} ELSE {}) \cup
  (IF INS_INFO(ins.opcode).src2 THEN {ins.sreg2} ELSE {}) \cup
  (IF MONO_IS_STORE_MEMBASE(ins) THEN {ins.dreg} ELSE {})

UsedInBlock(insns) == UNION {UsedOfIns(insns[i]) : i \in 1..Len(insns)}

\* mutant: a register move is taken for a trivial initializer too
IsConstLoadOrMove(opcode) == opcode \in {"OP_ICONST", "OP_I8CONST", "OP_R8CONST", "OP_MOVE"}

\* (ins->opcode == OP_ICONST) || (ins->opcode == OP_I8CONST) || (ins->opcode == OP_R8CONST)
IsConstLoad(opcode) == opcode \in {"OP_ICONST", "OP_I8CONST", "OP_R8CONST"}

\* mutant: a volatile variable is not spared
IsDeadInitIgnoreVolatile(ins, used, live_out, vol) ==
  /\ INS_INFO(ins.opcode).dest
  /\ ~MONO_IS_STORE_MEMBASE(ins)
  /\ LET var == get_vreg_to_inst(cfg.num_varinfo, ins.dreg)
     IN /\ var # -1
        /\ ins.dreg \notin used
        /\ var \notin live_out
        /\ var # cfg.ret
        /\ ~cfg.indirect[var]
  /\ IsConstLoad(ins.opcode)

\* mutant: the return variable is not spared
IsDeadInitRetToo(ins, used, live_out, vol) ==
  /\ INS_INFO(ins.opcode).dest
  /\ ~MONO_IS_STORE_MEMBASE(ins)
  /\ LET var == get_vreg_to_inst(cfg.num_varinfo, ins.dreg)
     IN /\ var # -1
        /\ ins.dreg \notin used
        /\ var \notin live_out
        /\ ~(var \in vol \/ cfg.indirect[var])
  /\ IsConstLoad(ins.opcode)

\* the conditions under which the second loop nullifies an instruction
IsDeadInit(ins, used, live_out, vol) ==
  /\ INS_INFO(ins.opcode).dest
  /\ ~MONO_IS_STORE_MEMBASE(ins)
  /\ LET var == get_vreg_to_inst(cfg.num_varinfo, ins.dreg)
     IN /\ var # -1
        /\ ins.dreg \notin used
        /\ var \notin live_out
        /\ var # cfg.ret
        /\ ~(var \in vol \/ cfg.indirect[var])
  /\ IsConstLoad(ins.opcode)

\* the second loop: nullify, and take 1 off the variable's spill cost
RECURSIVE OptimizeFrom(_, _, _, _)
OptimizeFrom(i, insns, vs, used) ==
  IF i > Len(insns) THEN [insns |-> insns, vs |-> vs]
  ELSE IF IsDeadInit(insns[i], used, Deref(live_out_set[initlocals_bb]), volatile)
  THEN OptimizeFrom(i + 1, [insns EXCEPT ![i] = NULLIFY_INS(insns[i])],
         [vs EXCEPT ![get_vreg_to_inst(cfg.num_varinfo, insns[i].dreg)].spill_costs =
                      @ - 1],
         used)
  ELSE OptimizeFrom(i + 1, insns, vs, used)

optimize_initlocals(insns, vs) == OptimizeFrom(1, insns, vs, UsedInBlock(insns))

(***************************************************************************)
(* The methods the analysis is run on.                                     *)
(***************************************************************************)
\* an untracked temporary: the vreg below the first variable's
TmpReg == VregOf(0) - 1

UseIns(v)   == Ins("OP_MOVE", TmpReg, VregOf(v), -1, -1)
DefIns(v)   == Ins("OP_ICONST", VregOf(v), -1, -1, -1)

\* edges never enter the entry block
EdgeCand(nb) == {e \in (0 .. nb - 1) \X (1 .. nb - 1) : TRUE}

Graphs(nb) == {E \in SUBSET EdgeCand(nb) : Cardinality(E) <= MaxEdges}

DfnOf(kind, nb) == [b \in 0 .. nb - 1 |-> IF kind = "index" THEN b ELSE nb - b]

Method(nb, nv, E, codes, regions, nestings, args, indirects, ret, vol0, kind) ==
  [num_bblocks |-> nb,
   num_varinfo |-> nv,
   dfn         |-> DfnOf(kind, nb),
   out_bb      |-> [b \in 0 .. nb - 1 |-> SortedSeq({e[2] : e \in {x \in E : x[1] = b}})],
   in_bb       |-> [b \in 0 .. nb - 1 |-> SortedSeq({e[1] : e \in {x \in E : x[2] = b}})],
   region      |-> regions,
   nesting     |-> nestings,
   is_arg      |-> [v \in 0 .. nv - 1 |-> v \in args],
   indirect    |-> [v \in 0 .. nv - 1 |-> v \in indirects],
   ret         |-> ret,
   code0       |-> codes,
   new_ir      |-> TRUE,
   volatile0   |-> vol0]

\* methods without variables: nothing is tracked, every vreg is a temporary
NoVarMethods ==
  {Method(MaxBlocks - 1, 0, E,
          [b \in 0 .. MaxBlocks - 2 |-> <<Ins("OP_ICONST", TmpReg, -1, -1, -1)>>],
          r, [b \in 0 .. MaxBlocks - 2 |-> 0], {}, {}, -1, {}, "index") :
     E \in {{}, {<<0, 1>>, <<1, 2>>}},
     r \in {[b \in 0 .. MaxBlocks - 2 |-> "none"],
            [b \in 0 .. MaxBlocks - 2 |-> IF b = 2 THEN "handler" ELSE "none"]}}

\* one use or one definition of one variable per block, or nothing
SolverCodes(nv) ==
  {<<>>} \cup {<<UseIns(v)>> : v \in 0 .. nv - 1} \cup {<<DefIns(v)>> : v \in 0 .. nv - 1}

\* graphs of one block less, numbered in index order or against it, the
\* first variable an argument or not
VariantMethods ==
  {Method(MaxBlocks - 1, MaxVars, E, c, [b \in 0 .. MaxBlocks - 2 |-> "none"],
          [b \in 0 .. MaxBlocks - 2 |-> 0], a, {}, -1, {}, kind) :
     E \in Graphs(MaxBlocks - 1),
     c \in {f \in [0 .. MaxBlocks - 2 -> SolverCodes(MaxVars)] : f[0] = <<>>},
     a \in {{}, {0}},
     kind \in {"index", "reverse"}}

\* graphs of MaxBlocks blocks with at most MaxEdges edges, ordinary blocks
SolverMethods ==
  {Method(MaxBlocks, nv, E, c, [b \in 0 .. MaxBlocks - 1 |-> "none"],
          [b \in 0 .. MaxBlocks - 1 |-> 0], {}, {}, -1, {}, "index") :
     nv \in {MaxVars}, E \in Graphs(MaxBlocks),
     c \in {f \in [0 .. MaxBlocks - 1 -> SolverCodes(MaxVars)] : f[0] = <<>>}}
  \cup VariantMethods \cup NoVarMethods

\* exception regions: graphs of one block less and one edge less, one
\* variable more, every block tagged and filled freely (the entry block is
\* no handler and holds at most a definition)
ExcCodes ==
  {<<>>, <<DefIns(0)>>, <<UseIns(MaxVars)>>,
   <<Ins("OP_IADD", VregOf(0), TmpReg, VregOf(MaxVars), -1)>>}

ExcMethods ==
  {Method(MaxBlocks - 1, MaxVars + 1, E, c, r, [b \in 0 .. MaxBlocks - 2 |-> 0],
          {}, {}, -1, {}, "index") :
     E \in {G \in Graphs(MaxBlocks - 1) : Cardinality(G) < MaxEdges},
     c \in {f \in [0 .. MaxBlocks - 2 -> ExcCodes] : f[0] \in {<<>>, <<DefIns(0)>>}},
     r \in {f \in [0 .. MaxBlocks - 2 -> {"none", "try", "handler"}] :
              f[0] \in {"none", "try"}}}
  \cup NoVarMethods

\* the instructions the init block is built from
InitMenu ==
  {Ins("OP_ICONST", VregOf(0), -1, -1, -1),
   Ins("OP_I8CONST", VregOf(0), -1, -1, -1),
   Ins("OP_ICONST", VregOf(MaxVars), -1, -1, -1),
   Ins("OP_R8CONST", VregOf(MaxVars), -1, -1, -1),
   Ins("OP_ICONST", TmpReg, -1, -1, -1),
   Ins("OP_MOVE", VregOf(MaxVars), VregOf(0), -1, -1),
   Ins("OP_MOVE", VregOf(0), TmpReg, -1, -1),
   Ins("OP_STORE_MEMBASE_REG", VregOf(0), TmpReg, -1, -1),
   Ins("OP_LDADDR", TmpReg, -1, -1, MaxVars),
   Ins("OP_COMPARE", -1, VregOf(MaxVars), TmpReg, -1),
   Ins("OP_NOP", -1, -1, -1, -1)}

InitCodes == UNION {[1 .. n -> InitMenu] : n \in 1 .. MaxInitInsns}

\* dead initializers: entry -> init block (-> a third block), the init block
\* filled freely, the third block using a variable or not, in a handler or not
OptMethods ==
  {Method(3, MaxVars + 1, E, [b \in 0 .. 2 |-> CASE b = 0 -> <<>> [] b = 1 -> c1 [] b = 2 -> c2],
          [b \in 0 .. 2 |-> IF b = 2 THEN r2 ELSE "none"],
          [b \in 0 .. 2 |-> IF b = 1 THEN 0 ELSE 1], {}, ind, ret, {}, kind) :
     E \in {{<<0, 1>>}, {<<0, 1>>, <<1, 2>>}},
     c1 \in InitCodes,
     c2 \in {<<>>, <<UseIns(0)>>, <<UseIns(MaxVars)>>},
     r2 \in {"none", "handler"},
     ind \in {{}, {MaxVars}},
     ret \in {-1, 0},
     kind \in {"index"}}
  \cup NoVarMethods

\* return v: the move of v into the (untracked) return register
RetIns(v) == Ins("OP_MOVE", TmpReg, VregOf(v), -1, -1)

\* the instructions the scanned block is built from: constant loads, an
\* addition of a variable to itself into another, an instruction reading and
\* writing the same variable, a return, a memory store through a variable,
\* an address-of and a no-op
ScanMenu ==
  {Ins("OP_ICONST", VregOf(0), -1, -1, -1),
   Ins("OP_IADD", VregOf(MaxVars), VregOf(0), VregOf(0), -1),
   RetIns(MaxVars),
   Ins("OP_IADD", VregOf(0), VregOf(0), TmpReg, -1),
   Ins("OP_ICONST", VregOf(MaxVars), -1, -1, -1),
   Ins("OP_STORE_MEMBASE_REG", VregOf(0), TmpReg, -1, -1),
   Ins("OP_LDADDR", TmpReg, -1, -1, MaxVars),
   Ins("OP_NOP", -1, -1, -1, -1)}

ScanCodes == UNION {[1 .. n -> ScanMenu] : n \in 1 .. MaxScanInsns}

\* the per-block scan: entry -> scanned block -> a third block (-> back), the
\* scanned block filled freely and nested in a loop or not, the third block
\* inside a loop and reading the first variable or empty
ScanMethods ==
  {Method(3, MaxVars + 1, E, [b \in 0 .. 2 |-> CASE b = 0 -> <<>> [] b = 1 -> c1 [] b = 2 -> c2],
          [b \in 0 .. 2 |-> "none"],
          [b \in 0 .. 2 |-> CASE b = 0 -> 0 [] b = 1 -> n1 [] b = 2 -> 1],
          {}, {}, -1, {}, "index") :
     E \in {{<<0, 1>>, <<1, 2>>}, {<<0, 1>>, <<1, 2>>, <<2, 1>>}},
     c1 \in ScanCodes,
     c2 \in {<<>>, <<UseIns(0)>>},
     n1 \in {0, 1}}

\* the nodes the trees are built from
VarNode(v)      == Tree("OP_LOCAL", {}, <<>>, <<>>, v)
ConstNode       == Tree("OP_ICONST", {}, <<>>, <<>>, -1)
LoadNode(v)     == Tree("CEE_LDIND_I4", {"LOAD"}, VarNode(v), <<>>, -1)
StoreNode(v, t) == Tree("CEE_STIND_I4", {"STORE"}, VarNode(v), t, -1)
AddNode(a, b)   == Tree("CEE_ADD", {}, a, b, -1)

\* the statements of a tree-IR block: v1 := const, v2 := v1 + v1,
\* v1 := v1 + const, return v2, the tail transfer, a dummy store and a load
\* through a pointer held in v2
TreeMenu ==
  {StoreNode(0, ConstNode),
   StoreNode(MaxVars, AddNode(LoadNode(0), LoadNode(0))),
   StoreNode(0, AddNode(LoadNode(0), ConstNode)),
   Tree("OP_SETRET", {}, LoadNode(MaxVars), <<>>, -1),
   Tree("CEE_JMP", {}, <<>>, <<>>, -1),
   Tree("OP_DUMMY_STORE", {}, VarNode(0), <<>>, -1),
   Tree("CEE_LDIND_I4", {"LOAD", "MAYBE_LOAD"}, LoadNode(MaxVars), <<>>, -1)}

TreeCodes == UNION {[1 .. n -> TreeMenu] : n \in 1 .. MaxScanInsns}

\* tree-IR methods: entry -> empty init block -> a block of trees (-> itself),
\* that block in no region, a try body or a handler, none, one or all of the
\* variables being arguments
TreeMethods ==
  {[Method(3, MaxVars + 1, E, [b \in 0 .. 2 |-> IF b = 2 THEN c2 ELSE <<>>],
           [b \in 0 .. 2 |-> IF b = 2 THEN r2 ELSE "none"],
           [b \in 0 .. 2 |-> IF b = 2 THEN 1 ELSE 0],
           a, {}, -1, {}, "index") EXCEPT !.new_ir = FALSE] :
     E \in {{<<0, 1>>, <<1, 2>>}, {<<0, 1>>, <<1, 2>>, <<2, 2>>}},
     c2 \in TreeCodes,
     r2 \in {"none", "try", "handler"},
     a \in {{}, {0}, 0 .. MaxVars}}

(***************************************************************************)
(* The initial state: nothing of the analysis exists yet.                  *)
(***************************************************************************)
StaleVar == [first_use |-> 0, last_use |-> 0, spill_costs |-> 3]

InitOf(m) ==
  /\ cfg = m
  /\ code = m.code0
  /\ comp_done = FALSE
  /\ arena = <<>>
  /\ gen_set = [b \in 0 .. m.num_bblocks - 1 |-> NULL]
  /\ kill_set = [b \in 0 .. m.num_bblocks - 1 |-> NULL]
  /\ live_in_set = [b \in 0 .. m.num_bblocks - 1 |-> NULL]
  /\ live_out_set = [b \in 0 .. m.num_bblocks - 1 |-> NULL]
  /\ mem = 0
  /\ vars = [v \in 0 .. m.num_varinfo - 1 |-> StaleVar]
  /\ volatile = m.volatile0
  /\ worklist = <<>>
  /\ in_worklist = <<>>
  /\ pc = "idle"
  /\ pushes = 0
  /\ visited = <<>>
  /\ widened = {}
  /\ runs = 0
  /\ processed = {}

Init == \E m \in SolverMethods : InitOf(m)

InitExc == \E m \in ExcMethods : InitOf(m)

InitOpt == \E m \in OptMethods : InitOf(m)

InitScan == \E m \in ScanMethods : InitOf(m)

InitTree == \E m \in TreeMethods \cup ScanMethods : InitOf(m)

(***************************************************************************)
(* mono_analyze_liveness, step by step.                                    *)
(***************************************************************************)
\* mutant: a method without variables is not remembered as analysed
AlreadyDoneWithVars == comp_done /\ cfg.num_varinfo # 0

\* g_assert (!(cfg->comp_done & MONO_COMP_LIVENESS)) fails
AlreadyDone == comp_done

\* mutant: the zero-variable return is missing
NoVarsNever == FALSE

\* if (max_vars == 0) return;
NoVars == cfg.num_varinfo = 0

\* the range and spill cost every variable starts a run with
FreshVar == [first_use |-> AllOnes, last_use |-> 0, spill_costs |-> 0]

\* entry: the assertion, the comp_done flag, the zero-variable return, the
\* carving of gen, kill and live_out and the reset of the variable table
Enter ==
  /\ pc \in {"idle", "done"}
  /\ IF AlreadyDone
     THEN /\ pc' = "aborted"
          /\ UNCHANGED <<cfg, code, comp_done, arena, gen_set, kill_set, live_in_set,
                         live_out_set, mem, vars, volatile, worklist, in_worklist,
                         pushes, visited, widened, runs, processed>>
     ELSE /\ comp_done' = TRUE
          /\ runs' = IF runs < 2 THEN runs + 1 ELSE runs
          /\ IF NoVars
             THEN /\ pc' = "done"
                  /\ UNCHANGED <<arena, gen_set, kill_set, live_in_set, live_out_set,
                                 mem, vars>>
             ELSE /\ pc' = "scan"
                  /\ arena' = [i \in 0 .. cfg.num_bblocks * 4 - 1 |-> {}]
                  /\ gen_set' = [b \in Blocks |-> 3 * b]
                  /\ kill_set' = [b \in Blocks |-> 3 * b + 1]
                  /\ live_in_set' = [b \in Blocks |-> NULL]
                  /\ live_out_set' = [b \in Blocks |-> 3 * b + 2]
                  /\ mem' = 3 * cfg.num_bblocks
                  /\ vars' = [v \in Vars |-> FreshVar]
          /\ UNCHANGED <<cfg, code, volatile, worklist, in_worklist,
                         pushes, visited, widened, processed>>

\* the gen/kill scan of every block
Scan ==
  /\ pc = "scan"
  /\ LET r == ScanBlocks(0, [ar |-> arena, vs |-> vars, vol |-> volatile])
     IN /\ arena' = r.ar
        /\ vars' = r.vs
        /\ volatile' = r.vol
  /\ pc' = "seed"
  /\ UNCHANGED <<cfg, code, comp_done, gen_set, kill_set, live_in_set, live_out_set, mem,
                 worklist, in_worklist, pushes, visited, widened, runs, processed>>

\* the worklist is seeded with every block of cfg->bblocks, in order
Seed ==
  /\ pc = "seed"
  /\ worklist' = [i \in 1 .. cfg.num_bblocks |-> i - 1]
  /\ in_worklist' = [d \in 0 .. cfg.num_bblocks |-> \E b \in Blocks : cfg.dfn[b] = d]
  /\ pc' = "solve"
  /\ processed' = {}
  /\ UNCHANGED <<cfg, code, comp_done, arena, gen_set, kill_set, live_in_set,
                 live_out_set, mem, vars, volatile, pushes, visited, widened, runs>>

\* what pushes saturates at, so that the counter stays finite
PushCap == (cfg.num_bblocks * cfg.num_bblocks) * (cfg.num_varinfo + 1) + 1

\* one iteration of while (l_end != 0)
SolveStep ==
  /\ pc = "solve"
  /\ worklist # <<>>
  /\ LET bb  == worklist[Len(worklist)]
         wl0 == SubSeq(worklist, 1, Len(worklist) - 1)
         iw0 == [in_worklist EXCEPT ![cfg.dfn[bb]] = FALSE]
     IN IF Len(cfg.out_bb[bb]) = 0
        THEN /\ worklist' = wl0
             /\ in_worklist' = iw0
             /\ UNCHANGED <<arena, live_in_set, mem, pushes>>
        ELSE LET changed == live_in_set[bb] = NULL
                 old     == arena[live_out_set[bb]]
                 s       == FoldSuccs(bb, 1, [li |-> live_in_set, ar |-> arena,
                                              mem |-> mem])
             IN IF NeedsUpdate(changed, old, s.ar[live_out_set[bb]])
                THEN LET u == UpdateLiveIn(bb, s)
                         w == PushPreds(bb, 1, [wl |-> wl0, inw |-> iw0, n |-> 0])
                     IN /\ live_in_set' = u.li
                        /\ arena' = u.ar
                        /\ mem' = u.mem
                        /\ worklist' = w.wl
                        /\ in_worklist' = w.inw
                        /\ pushes' = IF pushes + w.n > PushCap THEN PushCap
                                     ELSE pushes + w.n
                ELSE /\ live_in_set' = s.li
                     /\ arena' = s.ar
                     /\ mem' = s.mem
                     /\ worklist' = wl0
                     /\ in_worklist' = iw0
                     /\ UNCHANGED pushes
  /\ processed' = IF Len(cfg.out_bb[worklist[Len(worklist)]]) = 0 THEN processed
                  ELSE processed \cup {worklist[Len(worklist)]}
  /\ UNCHANGED <<cfg, code, comp_done, gen_set, kill_set, live_out_set, vars, volatile,
                 pc, visited, widened, runs>>

\* the worklist is empty: compute live_in for the blocks skipped earlier
Cleanup ==
  /\ pc = "solve"
  /\ worklist = <<>>
  /\ LET s == CleanupFrom(0, [li |-> live_in_set, ar |-> arena, mem |-> mem])
     IN /\ live_in_set' = s.li
        /\ arena' = s.ar
        /\ mem' = s.mem
  /\ pc' = "widen"
  /\ UNCHANGED <<cfg, code, comp_done, gen_set, kill_set, live_out_set, vars, volatile,
                 worklist, in_worklist, pushes, visited, widened, runs, processed>>

\* the live ranges are widened to the boundaries of the blocks
Widen ==
  /\ pc = "widen"
  /\ LET w == WidenBlocks(0, [vs |-> vars, touched |-> {}])
     IN /\ vars' = w.vs
        /\ widened' = w.touched
  /\ pc' = "exc"
  /\ UNCHANGED <<cfg, code, comp_done, arena, gen_set, kill_set, live_in_set,
                 live_out_set, mem, volatile, worklist, in_worklist, pushes, visited, runs,
                 processed>>

\* handle_exception_clauses (cfg)
Flood ==
  /\ pc = "exc"
  /\ LET st == handle_exception_clauses
     IN /\ volatile' = volatile \cup st.vol
        /\ visited' = st.visited
  /\ pc' = "args"
  /\ UNCHANGED <<cfg, code, comp_done, arena, gen_set, kill_set, live_in_set,
                 live_out_set, mem, vars, worklist, in_worklist, pushes, widened, runs,
                 processed>>

\* mutant: only an argument the code references is moved to position 0
ExtendArgRangeIfUsed(vi, is_arg) ==
  IF is_arg /\ vi.first_use # AllOnes THEN [vi EXCEPT !.first_use = 0] ELSE vi

\* if (cfg->varinfo [vi->idx]->opcode == OP_ARG) vi->range.first_use.abs_pos = 0;
ExtendArgRange(vi, is_arg) ==
  IF is_arg THEN [vi EXCEPT !.first_use = 0] ELSE vi

\* arguments are live from the beginning of the method
ArgRanges ==
  /\ pc = "args"
  /\ vars' = [v \in Vars |-> ExtendArgRange(vars[v], cfg.is_arg[v])]
  /\ pc' = "opt"
  /\ UNCHANGED <<cfg, code, comp_done, arena, gen_set, kill_set, live_in_set,
                 live_out_set, mem, volatile, worklist, in_worklist, pushes, visited,
                 widened, runs, processed>>

\* optimize_initlocals (cfg), and the return
Optimize ==
  /\ pc = "opt"
  /\ LET r == optimize_initlocals(code[initlocals_bb], vars)
     IN /\ code' = [code EXCEPT ![initlocals_bb] = r.insns]
        /\ vars' = r.vs
  /\ pc' = "done"
  /\ UNCHANGED <<cfg, comp_done, arena, gen_set, kill_set, live_in_set, live_out_set,
                 mem, volatile, worklist, in_worklist, pushes, visited, widened, runs,
                 processed>>

Next ==
  \/ Enter
  \/ Scan
  \/ Seed
  \/ SolveStep
  \/ Cleanup
  \/ Widen
  \/ Flood
  \/ ArgRanges
  \/ Optimize

Spec == Init /\ [][Next]_vars_all

ExcSpec == InitExc /\ [][Next]_vars_all

OptSpec == InitOpt /\ [][Next]_vars_all

ScanSpec == InitScan /\ [][Next]_vars_all

\* both forms of the IR
TreeSpec == InitTree /\ [][Next]_vars_all

\* the solver family on graphs of one block less, for the liveness check
TermMethods == VariantMethods \cup NoVarMethods

InitTerm == \E m \in TermMethods : InitOf(m)

\* the analysis is one sequential call that runs to completion: a step that
\* can be taken is taken
FairSpec == InitTerm /\ [][Next]_vars_all /\ WF_vars_all(Next)

(***************************************************************************)
(* Vocabulary of the properties.                                           *)
(***************************************************************************)
Bits(p) == IF p = NULL THEN {} ELSE arena[p]
Succs(b) == Range(cfg.out_bb[b])
Preds(b) == Range(cfg.in_bb[b])
Analyzed == pc \in {"widen", "exc", "args", "opt", "done"} /\ cfg.num_varinfo > 0
Returned == pc = "done" /\ cfg.num_varinfo > 0
HasEdge(a, b) == b \in Succs(a)

\* C1: when the analysis of a method with at least one variable has returned
\* (and already once the cleanup pass is over), every block has
\* live_in = (live_out \ kill) + gen and live_out = the union of the live_in
\* of its successors.
C1_FixpointSoundness ==
  Analyzed =>
    \A b \in Blocks :
      /\ live_in_set[b] # NULL
      /\ Deref(live_in_set[b]) =
           (Deref(live_out_set[b]) \ Deref(kill_set[b])) \cup Deref(gen_set[b])
      /\ Deref(live_out_set[b]) = UNION {Deref(live_in_set[s]) : s \in Succs(b)}

\* a returned run on a graph with a cycle through two blocks that carries a
\* variable around it, and with a block that was pushed again
C1_Witness ==
  /\ Returned
  /\ pushes > 0
  /\ \E a, b \in Blocks :
       /\ a # b /\ HasEdge(a, b) /\ HasEdge(b, a)
       /\ Deref(live_out_set[a]) # {} /\ Deref(live_out_set[b]) # {}
  /\ \E b \in Blocks : HasEdge(b, b) /\ Deref(live_in_set[b]) # {}

\* the blocks from which a path leads to a use of v with no definition of v
\* in any block before the last: the least set closed under the path rule
RECURSIVE LiveClosure(_, _)
LiveClosure(v, S) ==
  LET T == S \cup {b \in Blocks : /\ v \notin Deref(kill_set[b])
                                  /\ \E s \in Succs(b) : s \in S}
  IN IF T = S THEN S ELSE LiveClosure(v, T)

LiveBlocks(v) == LiveClosure(v, {b \in Blocks : v \in Deref(gen_set[b])})

\* C2: after the analysis v is in live_in[B] exactly when a path
\* B = B0 -> ... -> Bk leads to a block Bk with v in gen[Bk] and v is in
\* kill[Bi] for no i < k.
C2_LeastSolution ==
  Analyzed =>
    \A b \in Blocks : \A v \in Vars :
      v \in Deref(live_in_set[b]) <=> b \in LiveBlocks(v)

\* the loop-carried scenario: Entry(0) -> Header(1) -> Body(2) -> Header,
\* Header -> Exit(3), v used in Header and not defined in Body
C2_Witness ==
  /\ Returned
  /\ cfg.num_bblocks = 4
  /\ cfg.out_bb = [b \in 0 .. 3 |-> CASE b = 0 -> <<1>> [] b = 1 -> <<2, 3>>
                                       [] b = 2 -> <<1>> [] b = 3 -> <<>>]
  /\ 0 \in Deref(gen_set[1])
  /\ 0 \notin Deref(kill_set[2])
  /\ 0 \in Deref(live_in_set[1])
  /\ 0 \in Deref(live_out_set[2])
  /\ 0 \in Deref(live_in_set[2])

\* C3: no step of the solver loop, and not the cleanup pass, takes a variable
\* out of a live_in or live_out set.
C3_Monotonic ==
  [][pc = "solve" =>
       \A b \in Blocks :
         /\ Bits(live_in_set[b]) \subseteq
              (IF live_in_set'[b] = NULL THEN {} ELSE arena'[live_in_set'[b]])
         /\ Bits(live_out_set[b]) \subseteq arena'[live_out_set'[b]]]_vars_all

\* a block is processed again and its live_out, already non-empty, has grown
C3_Witness ==
  /\ pc = "solve"
  /\ pushes > 0
  /\ \E b \in Blocks : live_in_set[b] # NULL /\ Deref(live_out_set[b]) # {}
                        /\ ~in_worklist[cfg.dfn[b]] /\ Len(cfg.out_bb[b]) > 1

NumEdges == Cardinality({e \in Blocks \X Blocks : HasEdge(e[1], e[2])})

\* C4: the worklist loop empties and the analysis returns, and the blocks
\* pushed again after the seeding number at most
\* (edges) * (variables + 1) <= (blocks * blocks) * (variables + 1).
C4_Termination ==
  /\ [](pushes <= NumEdges * (cfg.num_varinfo + 1))
  /\ <>(pc \in {"done", "aborted"})

\* a run on a cyclic graph that pushed blocks again and returned
C4_Witness ==
  /\ Returned
  /\ pushes >= 3
  /\ \E a, b \in Blocks : a # b /\ HasEdge(a, b) /\ HasEdge(b, a)

\* the position "live at entry of b" and "live at exit of b"
EntryPos(b) == cfg.dfn[b] * Pow2(PosShift)
ExitPos(b) == cfg.dfn[b] * Pow2(PosShift) + BlockExitOffset

\* the variables in the live_in or live_out of some block
LiveSomewhere ==
  {v \in Vars : \E b \in Blocks : v \in Deref(live_in_set[b]) \cup Deref(live_out_set[b])}

\* C5: after the analysis the range of a variable in live_in[B] contains the
\* entry position of B and the range of a variable in live_out[B] contains
\* the exit position of B; the widening loop records exactly the variables
\* whose bits are set, none of them at or above the variable count, and
\* leaves the range of every other variable alone.
C5_RangeContainment ==
  /\ [](pc \in {"exc", "args", "opt", "done"} /\ cfg.num_varinfo > 0 =>
          /\ \A b \in Blocks : \A v \in Deref(live_in_set[b]) :
               /\ ULessEq(vars[v].first_use, EntryPos(b))
               /\ ULessEq(EntryPos(b), vars[v].last_use)
          /\ \A b \in Blocks : \A v \in Deref(live_out_set[b]) :
               /\ ULessEq(vars[v].first_use, ExitPos(b))
               /\ ULessEq(ExitPos(b), vars[v].last_use)
          /\ widened = LiveSomewhere
          /\ \A k \in widened : k >= 0 /\ k < cfg.num_varinfo)
  /\ [][pc = "widen" => \A v \in Vars \ LiveSomewhere : vars'[v] = vars[v]]_vars_all

\* a variable is live through a block that does not mention it, and only the
\* widening put the exit of that block into its range
C5_Witness ==
  /\ Returned
  /\ \E b \in Blocks : \E v \in Vars :
       /\ code[b] = <<>>
       /\ v \in Deref(live_in_set[b]) /\ v \in Deref(live_out_set[b])
       /\ vars[v].first_use = EntryPos(b)
  /\ \E b \in Blocks : \E v \in Vars :
       v \in Deref(live_out_set[b]) /\ vars[v].last_use = ExitPos(b)

\* the blocks reachable over successor edges from the blocks of R (R included)
RECURSIVE ReachableFrom(_)
ReachableFrom(R) ==
  LET T == R \cup UNION {Succs(b) : b \in R}
  IN IF T = R THEN R ELSE ReachableFrom(T)

HandlerBlocks == {b \in Blocks : cfg.region[b] \notin {"none", "try"}}

\* the variables that are an operand of an instruction the block had
OperandVars(b) ==
  {v \in Vars : \E i \in 1 .. Len(cfg.code0[b]) :
     VregOf(v) \in {cfg.code0[b][i].dreg, cfg.code0[b][i].sreg1, cfg.code0[b][i].sreg2}}

\* C6: after the flood every variable that is an operand of an instruction in
\* a block reachable from a handler/filter/finally block is volatile; the
\* flood makes volatile no variable that is an operand only in blocks not
\* reachable from such a block; it starts from no try-body block, and it
\* visits exactly the reachable blocks, each once.
C6_VolatilityPropagation ==
  pc \in {"args", "opt", "done"} /\ cfg.num_varinfo > 0 =>
    /\ \A b \in ReachableFrom(HandlerBlocks) : OperandVars(b) \subseteq volatile
    /\ \A v \in volatile \ cfg.volatile0 :
         \E b \in ReachableFrom(HandlerBlocks) : v \in OperandVars(b)
    /\ Range(visited) = ReachableFrom(HandlerBlocks)
    /\ Cardinality(Range(visited)) = Len(visited)

\* a handler reaches an ordinary block around a cycle and marks its variable;
\* a try body that no handler reaches keeps its variable unmarked
C6_Witness ==
  /\ Returned
  /\ \E h, b \in Blocks :
       /\ h # b /\ cfg.region[h] = "handler" /\ cfg.region[b] = "none"
       /\ HasEdge(h, b) /\ HasEdge(b, h)
       /\ OperandVars(h) = {} /\ OperandVars(b) # {} /\ OperandVars(b) \subseteq volatile
  /\ \E t \in Blocks :
       /\ cfg.region[t] = "try" /\ t \notin Range(visited)
       /\ \E v \in OperandVars(t) : v \notin volatile

\* the vregs that are a source operand or a memory-store destination in insns
UsedWithin(insns) ==
  {r \in 0 .. cfg.num_varinfo + 1 : \E i \in 1 .. Len(insns) :
     \/ insns[i].opcode \in {"OP_MOVE", "OP_IADD", "OP_COMPARE", "OP_STORE_MEMBASE_REG"}
        /\ insns[i].sreg1 = r
     \/ insns[i].opcode \in {"OP_IADD", "OP_COMPARE"} /\ insns[i].sreg2 = r
     \/ insns[i].opcode = "OP_STORE_MEMBASE_REG" /\ insns[i].dreg = r}

\* instruction i of the init block is a dead initializer, in the words of C7
DeadInitializer(i) ==
  LET ins == code[initlocals_bb][i]
      v   == ins.dreg - 1
  IN /\ ins.dreg # -1
     /\ ins.opcode # "OP_STORE_MEMBASE_REG"
     /\ v \in Vars
     /\ ins.dreg \notin UsedWithin(code[initlocals_bb])
     /\ v \notin Deref(live_out_set[initlocals_bb])
     /\ v # cfg.ret
     /\ v \notin volatile
     /\ ~cfg.indirect[v]
     /\ ins.opcode \in {"OP_ICONST", "OP_I8CONST", "OP_R8CONST"}

\* C7: dead initializer elimination turns exactly the dead initializers of the
\* init block into no-ops, takes 1 off the spill cost of the destination
\* variable for each of them, and changes no other instruction, no range and
\* no other spill cost.
C7_DeadInitializers ==
  [][pc = "opt" =>
       /\ DOMAIN code' = DOMAIN code
       /\ \A b \in Blocks \ {initlocals_bb} : code'[b] = code[b]
       /\ Len(code'[initlocals_bb]) = Len(code[initlocals_bb])
       /\ \A i \in 1 .. Len(code[initlocals_bb]) :
            code'[initlocals_bb][i] =
              IF DeadInitializer(i) THEN Ins("OP_NOP", -1, -1, -1, -1)
              ELSE code[initlocals_bb][i]
       /\ \A v \in Vars :
            /\ vars'[v].spill_costs = vars[v].spill_costs -
                 Cardinality({i \in 1 .. Len(code[initlocals_bb]) :
                                DeadInitializer(i) /\ code[initlocals_bb][i].dreg = v + 1})
            /\ vars'[v].first_use = vars[v].first_use
            /\ vars'[v].last_use = vars[v].last_use]_vars_all

\* one initializer was eliminated and its spill cost went from 1 to 0, while a
\* constant load of the return variable was kept
C7_Witness ==
  /\ Returned
  /\ \E i \in 1 .. Len(code[initlocals_bb]) :
       /\ cfg.code0[initlocals_bb][i].opcode = "OP_R8CONST"
       /\ code[initlocals_bb][i].opcode = "OP_NOP"
       /\ vars[cfg.code0[initlocals_bb][i].dreg - 1].spill_costs = 0
  /\ \E j \in 1 .. Len(code[initlocals_bb]) :
       /\ code[initlocals_bb][j].opcode = "OP_ICONST"
       /\ code[initlocals_bb][j].dreg - 1 = cfg.ret

\* C8: applied to the state the analysis leaves, optimize_initlocals replaces
\* no further instruction and decrements no spill cost.
C8_Idempotent ==
  Returned =>
    optimize_initlocals(code[initlocals_bb], vars) =
      [insns |-> code[initlocals_bb], vs |-> vars]

\* the first application eliminated an initializer and left in the block a
\* constant load of a tracked variable that is not the return variable
C8_Witness ==
  /\ Returned
  /\ \E i, k \in 1 .. Len(code[initlocals_bb]) :
       /\ cfg.code0[initlocals_bb][i].opcode # "OP_NOP"
       /\ code[initlocals_bb][i].opcode = "OP_NOP"
       /\ code[initlocals_bb][k].opcode \in {"OP_ICONST", "OP_I8CONST", "OP_R8CONST"}
       /\ code[initlocals_bb][k].dreg - 1 \in Vars \ {cfg.ret}

\* everything the analysis computes or rewrites
Products == <<code, arena, gen_set, kill_set, live_in_set, live_out_set, mem, vars,
              volatile, worklist, in_worklist, visited, widened>>

\* C9: every run, one on a method without variables too, leaves the method
\* marked as analysed, and a call on a method so marked aborts at the entry
\* assertion with no set, range, spill cost, flag or instruction modified;
\* nothing runs after the abort.
C9_ReinvocationAborts ==
  /\ [](pc \notin {"idle", "aborted"} => comp_done)
  /\ [](runs <= 1)
  /\ [][pc = "done" => pc' = "aborted" /\ comp_done' /\ UNCHANGED Products]_vars_all
  /\ [][pc # "aborted"]_vars_all

\* a method without variables was analysed, and the second call aborted
C9_Witness == pc = "aborted" /\ cfg.num_varinfo = 0 /\ comp_done

\* C10: on a method without variables the call returns at once: no bit set
\* is carved, the solver, the flood and the elimination do not run, and
\* every block, instruction and variable is as before.
C10_NoVarsNoOp ==
  [][pc = "idle" /\ cfg.num_varinfo = 0 =>
       /\ pc' = "done"
       /\ UNCHANGED <<cfg, Products>>
       /\ arena' = <<>> /\ mem' = 0
       /\ \A b \in Blocks : /\ gen_set'[b] = NULL /\ kill_set'[b] = NULL
                            /\ live_in_set'[b] = NULL /\ live_out_set'[b] = NULL]_vars_all

\* a method without variables, with a handler block and a constant load in its
\* init block, has returned with nothing carved and nothing visited
C10_Witness ==
  /\ pc = "done" /\ cfg.num_varinfo = 0
  /\ arena = <<>> /\ visited = <<>>
  /\ \E b \in Blocks : cfg.region[b] = "handler"
  /\ code[initlocals_bb][1].opcode = "OP_ICONST"

(***************************************************************************)
(* Claims on the argument ranges, the per-block scan, the spill costs, the *)
(* order of the passes and the worklist.                                   *)
(***************************************************************************)
\* C11: once the final adjustment of a run on a method with variables is
\* done, every incoming argument has first_use = 0, referenced or not and
\* wherever its references are, and the adjustment leaves the first_use of
\* every other variable as it was.
C11_ArgumentRange ==
  /\ [](pc \in {"opt", "done"} /\ cfg.num_varinfo > 0 =>
          \A v \in Vars : cfg.is_arg[v] => vars[v].first_use = 0)
  /\ [][pc = "args" =>
          \A v \in Vars : ~cfg.is_arg[v] => vars'[v].first_use = vars[v].first_use]_vars_all

\* an argument whose only reference lies in a block other than the first is
\* at first_use 0 after the run, and its last_use is where the scan put it
C11_Witness ==
  /\ pc = "done" /\ cfg.num_varinfo > 0
  /\ \E v \in Vars :
       /\ cfg.is_arg[v]
       /\ vars[v].first_use = 0
       /\ vars[v].last_use > 0
       /\ \E b \in Blocks : cfg.dfn[b] > 0 /\ cfg.code0[b] = <<DefIns(v)>>
       /\ \A b \in Blocks : cfg.code0[b] # <<>> => cfg.code0[b] = <<DefIns(v)>>

\* the straight-line block: v1 := const; v2 := v1 + v1; return v2
StraightLine ==
  <<Ins("OP_ICONST", VregOf(0), -1, -1, -1),
    Ins("OP_IADD", VregOf(MaxVars), VregOf(0), VregOf(0), -1),
    RetIns(MaxVars)>>

\* the method whose only block with code is the straight-line block
IsStraightLine == cfg.code0[1] = StraightLine /\ cfg.code0[2] = <<>>

\* gen, kill, live_out and v1's range of the straight-line block, as expected
StraightLineSets ==
  /\ 0 \in Bits(kill_set[1]) /\ 0 \notin Bits(gen_set[1])
  /\ MaxVars \in Bits(kill_set[1])
  /\ Bits(live_out_set[1]) = {}
  /\ vars[0].first_use = EntryPos(1) + 1
  /\ vars[0].last_use = EntryPos(1) + 2

\* C12 as stated: after the analysis of the straight-line method v1 is in
\* kill and not in gen, v2 is in kill, live_out is empty, v1's range runs from
\* the definition slot of the first instruction to the use slot of the second,
\* and v2's range is the definition slot of the second instruction alone.
C12_AsStated ==
  Returned /\ IsStraightLine =>
    /\ StraightLineSets
    /\ vars[MaxVars].first_use = EntryPos(1) + 3
    /\ vars[MaxVars].last_use = EntryPos(1) + 3

\* C12 amended: as above, except that v2's range runs from the definition
\* slot of the second instruction to the use slot of the return, which reads
\* v2.
C12_StraightLine ==
  Returned /\ IsStraightLine =>
    /\ StraightLineSets
    /\ vars[MaxVars].first_use = EntryPos(1) + 3
    /\ vars[MaxVars].last_use = EntryPos(1) + 4

\* the straight-line method has been analysed, nothing of it was eliminated
C12_Witness ==
  /\ Returned /\ IsStraightLine
  /\ code[1] = StraightLine
  /\ vars[MaxVars].last_use = EntryPos(1) + 4

\* the gen/kill scan of the run is over
Scanned == pc \notin {"idle", "scan"} /\ cfg.num_varinfo > 0

\* the variables an instruction uses: its source operands, the variable whose
\* address it takes, the destination of a store to memory
UsesOf(ins) ==
  ((IF ins.opcode \in {"OP_MOVE", "OP_IADD", "OP_COMPARE", "OP_STORE_MEMBASE_REG"}
    THEN {ins.sreg1 - 1} ELSE {})
   \cup (IF ins.opcode \in {"OP_IADD", "OP_COMPARE"} THEN {ins.sreg2 - 1} ELSE {})
   \cup (IF ins.opcode = "OP_STORE_MEMBASE_REG" THEN {ins.dreg - 1} ELSE {})
   \cup (IF ins.opcode = "OP_LDADDR" THEN {ins.inst_p0} ELSE {}))
  \cap Vars

\* the variable an instruction plainly defines, if any
PlainDefOf(ins) ==
  IF ins.opcode \in {"OP_ICONST", "OP_I8CONST", "OP_R8CONST", "OP_LDADDR", "OP_MOVE", "OP_IADD"}
  THEN {ins.dreg - 1} \cap Vars
  ELSE {}

\* the variables with a use in block b that no earlier instruction of b defines
UpwardExposed(b) ==
  {v \in Vars : \E i \in 1 .. Len(cfg.code0[b]) :
     /\ v \in UsesOf(cfg.code0[b][i])
     /\ \A j \in 1 .. i - 1 : v \notin PlainDefOf(cfg.code0[b][j])}

\* the variables some instruction of block b plainly defines
DefinedIn(b) == UNION {PlainDefOf(cfg.code0[b][i]) : i \in 1 .. Len(cfg.code0[b])}

\* C13: after the scan gen[B] is exactly the set of variables with a use
\* (source operand, address-of operand, destination of a memory store) at an
\* instruction that no strictly earlier instruction of B plainly defines, and
\* kill[B] is exactly the set of plain destinations of B's instructions;
\* no-ops contribute to neither.
C13_KillBeforeGen ==
  Scanned => \A b \in Blocks : /\ Bits(gen_set[b]) = UpwardExposed(b)
                               /\ Bits(kill_set[b]) = DefinedIn(b)

\* a scanned block defines a variable and then uses it, so that the variable
\* is in kill and, for all its use, not in gen; the block holds a no-op too
C13_Witness ==
  /\ Scanned
  /\ \E v \in Vars : /\ v \in Bits(kill_set[1]) /\ v \notin Bits(gen_set[1])
                     /\ \E i \in 1 .. Len(cfg.code0[1]) : v \in UsesOf(cfg.code0[1][i])
  /\ \E i \in 1 .. Len(cfg.code0[1]) : cfg.code0[1][i].opcode = "OP_NOP"

\* C14 as stated: after the scan no variable is in both gen[B] and kill[B].
C14_AsStated ==
  Scanned => \A b \in Blocks : Bits(gen_set[b]) \cap Bits(kill_set[b]) = {}

\* the instructions of block b that use v, and those that plainly define it
UsesAt(b, v) == {i \in 1 .. Len(cfg.code0[b]) : v \in UsesOf(cfg.code0[b][i])}
DefsAt(b, v) == {i \in 1 .. Len(cfg.code0[b]) : v \in PlainDefOf(cfg.code0[b][i])}

\* C14 amended: after the scan a variable is in both gen[B] and kill[B]
\* exactly when B plainly defines it and some use of it comes before every
\* such definition or in the first instruction that defines it (the
\* instruction reads and writes the variable); a variable whose every use
\* follows a definition by an earlier instruction is never in gen.
C14_Exclusivity ==
  Scanned =>
    \A b \in Blocks : \A v \in Vars :
      /\ v \in Bits(gen_set[b]) \cap Bits(kill_set[b]) <=>
           /\ DefsAt(b, v) # {}
           /\ \E i \in UsesAt(b, v) : \A j \in DefsAt(b, v) : i <= j
      /\ (\A i \in UsesAt(b, v) : \E j \in DefsAt(b, v) : j < i) =>
           v \notin Bits(gen_set[b])

\* a scanned block has one variable in gen and kill (an instruction reads and
\* writes it) and another in kill alone although the block uses it
C14_Witness ==
  /\ Scanned
  /\ \E v \in Vars : /\ v \in Bits(gen_set[1]) \cap Bits(kill_set[1])
                     /\ UsesAt(1, v) \cap DefsAt(1, v) # {}
  /\ \E v \in Vars : /\ v \in Bits(kill_set[1]) \ Bits(gen_set[1])
                     /\ UsesAt(1, v) # {}

\* how many use or definition events of v an instruction records: one for
\* every operand slot (address-of, first source, second source, destination)
\* that names v
EventsOf(ins, v) ==
  (IF ins.opcode = "OP_LDADDR" /\ ins.inst_p0 = v THEN 1 ELSE 0)
  + (IF ins.opcode \in {"OP_MOVE", "OP_IADD", "OP_COMPARE", "OP_STORE_MEMBASE_REG"}
        /\ ins.sreg1 = VregOf(v) THEN 1 ELSE 0)
  + (IF ins.opcode \in {"OP_IADD", "OP_COMPARE"} /\ ins.sreg2 = VregOf(v) THEN 1 ELSE 0)
  + (IF ins.opcode \in {"OP_ICONST", "OP_I8CONST", "OP_R8CONST", "OP_LDADDR", "OP_MOVE",
                        "OP_IADD", "OP_STORE_MEMBASE_REG"}
        /\ ins.dreg = VregOf(v) THEN 1 ELSE 0)

\* the events of v in the first n instructions of block b
RECURSIVE EventsIn(_, _, _)
EventsIn(b, n, v) ==
  IF n = 0 THEN 0 ELSE EventsIn(b, n - 1, v) + EventsOf(cfg.code0[b][n], v)

\* 4^d a time for every event of v in a block of nesting depth d, summed over
\* the first n blocks
RECURSIVE AccumulatedCost(_, _)
AccumulatedCost(n, v) ==
  IF n = 0 THEN 0
  ELSE AccumulatedCost(n - 1, v)
       + EventsIn(n - 1, Len(cfg.code0[n - 1]), v) * (4 ^ cfg.nesting[n - 1])

\* C16: a run resets the spill cost of every variable to 0, and from the end
\* of the gen/kill phase until the elimination of dead initializers the spill
\* cost of v is the sum over the use and definition events of v of
\* 2^(2 * nesting depth of the event's block).
C16_SpillCostAccumulation ==
  /\ pc = "scan" => \A v \in Vars : vars[v].spill_costs = 0
  /\ pc \in {"seed", "solve", "widen", "exc", "args", "opt"} =>
       \A v \in Vars : vars[v].spill_costs = AccumulatedCost(cfg.num_bblocks, v)

\* after the scan a variable with events in a block of depth 1 and in a block
\* of depth 0 carries a cost that is the sum of both kinds
C16_Witness ==
  /\ pc = "seed"
  /\ cfg.nesting[1] = 0 /\ cfg.nesting[2] = 1
  /\ EventsIn(1, Len(cfg.code0[1]), 0) >= 2
  /\ EventsIn(2, Len(cfg.code0[2]), 0) = 1
  /\ vars[0].spill_costs = EventsIn(1, Len(cfg.code0[1]), 0) + 4

\* position p lies within the live range of v
Within(v, p) == ULessEq(vars[v].first_use, p) /\ ULessEq(p, vars[v].last_use)

\* the variables a tree loads, stores or dummy-stores directly
RECURSIVE TreeEventVars(_)
TreeEventVars(t) ==
  (IF t.ssa_op = {"LOAD"} \/ t.ssa_op = {"STORE"} \/ t.opcode = "OP_DUMMY_STORE"
   THEN {t.inst_i0.inst_c0} ELSE {})
  \cup (IF t.opcode \in {"CEE_LDIND_I4", "OP_SETRET", "CEE_ADD", "CEE_STIND_I4"}
        THEN TreeEventVars(t.inst_i0) ELSE {})
  \cup (IF t.opcode \in {"CEE_ADD", "CEE_STIND_I4"} THEN TreeEventVars(t.inst_i1) ELSE {})

\* the arguments a tail transfer forces into gen (or would, were they not
\* killed)
TailTransferVars(t) == IF t.opcode = "CEE_JMP" THEN {v \in Vars : cfg.is_arg[v]} ELSE {}

\* every event of the scan lies within the range of its variable: on the flat
\* IR a use at the use slot and a definition at the definition slot of its
\* instruction, on the tree IR a load or store at the index of its tree, and,
\* when tail is set, the arguments at the index of a tail transfer
EventsCovered(tail) ==
  \A b \in Blocks : \A i \in 1 .. Len(cfg.code0[b]) : \A v \in Vars :
    IF cfg.new_ir
    THEN /\ v \in UsesOf(cfg.code0[b][i]) => Within(v, EntryPos(b) + 2 * (i - 1))
         /\ v \in PlainDefOf(cfg.code0[b][i]) => Within(v, EntryPos(b) + 2 * (i - 1) + 1)
    ELSE /\ v \in TreeEventVars(cfg.code0[b][i]) => Within(v, EntryPos(b) + i - 1)
         /\ tail /\ v \in TailTransferVars(cfg.code0[b][i]) => Within(v, EntryPos(b) + i - 1)

\* C15 as stated: after the scan the range of v contains the position of
\* every instruction that put v into gen or kill, or would have but for the
\* kill precedence, the arguments a tail transfer (CEE_JMP) of the tree IR
\* forces into gen included.
C15_AsStated == Scanned => EventsCovered(TRUE)

\* the variables that are an operand of an instruction in a block reachable
\* from a handler, filter or finally block
HandlerOperands == UNION {OperandVars(b) : b \in ReachableFrom(HandlerBlocks)}

\* the fixpoint is reached: nothing is pending and every block has its live_in
FixpointDone == worklist = <<>> /\ \A b \in Blocks : live_in_set[b] # NULL

\* C17: the flood starts when the fixpoint is reached and is complete when
\* the elimination of dead initializers starts, and the elimination replaces
\* no instruction of the init block whose destination is a variable that is
\* an operand in a block reachable from a handler, filter or finally block,
\* whether or not the variable is in the init block's live_out.
C17_PassOrdering ==
  /\ [](pc = "exc" => FixpointDone)
  /\ [](pc \in {"args", "opt"} =>
          /\ Range(visited) = ReachableFrom(HandlerBlocks)
          /\ HandlerOperands \subseteq volatile)
  /\ [][pc = "opt" =>
          \A i \in 1 .. Len(code[initlocals_bb]) :
            code[initlocals_bb][i].dreg - 1 \in HandlerOperands =>
              code'[initlocals_bb][i] = code[initlocals_bb][i]]_vars_all

\* a handler that the init block does not lead to reads a variable; the
\* variable is not in the init block's live_out, is neither the return
\* variable nor indirect nor used within the init block, and its constant
\* load is still there after the run
C17_Witness ==
  /\ Returned
  /\ cfg.region[2] = "handler" /\ ~HasEdge(1, 2)
  /\ \E i \in 1 .. Len(code[initlocals_bb]) :
       LET ins == code[initlocals_bb][i]
           v   == ins.dreg - 1
       IN /\ ins.opcode = "OP_ICONST"
          /\ v \in HandlerOperands
          /\ v \notin Bits(live_out_set[initlocals_bb])
          /\ v # cfg.ret /\ ~cfg.indirect[v]
          /\ ins.dreg \notin UsedWithin(code[initlocals_bb])

\* the block the solver takes next, and the worklist below it
Top == worklist[Len(worklist)]
Rest == SubSeq(worklist, 1, Len(worklist) - 1)

\* the predecessors of B that have gen/kill sets and are not pending when B
\* has been taken from the worklist
Eligible(B) == {p \in Preds(B) : gen_set[p] # NULL /\ p \notin Range(Rest)}

\* the step took B from the worklist and put exactly the blocks of S on top
PushedExactly(S) ==
  /\ Len(worklist') = Len(Rest) + Cardinality(S)
  /\ SubSeq(worklist', 1, Len(Rest)) = Rest
  /\ {worklist'[k] : k \in Len(Rest) + 1 .. Len(worklist')} = S

\* the step changes the live_out of B
LiveOutChanges(B) == arena'[live_out_set[B]] # arena[live_out_set[B]]

\* C18 as stated: when the solver processes a block B with a successor, it
\* pushes every predecessor of B that has gen/kill sets and is not pending
\* onto the top of the worklist if this is the first time B is processed or
\* if B's live_out changed, and pushes nothing otherwise.
C18_AsStated ==
  [][pc = "solve" /\ worklist # <<>> =>
       IF Len(cfg.out_bb[Top]) > 0 /\ (Top \notin processed \/ LiveOutChanges(Top))
       THEN PushedExactly(Eligible(Top))
       ELSE PushedExactly({})]_vars_all

\* C18 amended: as above, with "B has no live_in set yet" in the place of
\* "this is the first time B is processed": a block whose live_in was
\* created when a block processed earlier folded it in as a successor is
\* treated as unchanged on its first pass.
C18_Repropagation ==
  [][pc = "solve" /\ worklist # <<>> =>
       IF Len(cfg.out_bb[Top]) > 0 /\ (live_in_set[Top] = NULL \/ LiveOutChanges(Top))
       THEN PushedExactly(Eligible(Top))
       ELSE PushedExactly({})]_vars_all

\* a block processed before has just been processed again, its live_out grew
\* and a predecessor that was not pending is back on top of the worklist
C18_Witness ==
  /\ pc = "solve" /\ worklist # <<>>
  /\ pushes > 0
  /\ Top \notin Range(Rest)
  /\ \E B \in processed : /\ Top \in Preds(B)
                          /\ live_in_set[B] # NULL
                          /\ Bits(live_out_set[B]) # {}
                          /\ Len(cfg.out_bb[B]) > 1

\* C19: in every state of the solver loop the worklist holds no block twice,
\* in_worklist[dfn] is TRUE exactly for the blocks in the worklist, and the
\* number of pending blocks is at most the number of blocks (the dfn values
\* of the blocks are distinct).
C19_WorklistBound ==
  pc = "solve" =>
    /\ \A j, k \in 1..Len(worklist) : worklist[j] = worklist[k] => j = k
    /\ \A b \in Blocks : in_worklist[cfg.dfn[b]] <=> b \in Range(worklist)
    /\ \A d \in DOMAIN in_worklist :
         in_worklist[d] => \E b \in Range(worklist) : cfg.dfn[b] = d
    /\ Len(worklist) <= cfg.num_bblocks

\* the solver has pushed a block back while another block is pending below it
C19_Witness ==
  /\ pc = "solve" /\ pushes > 0
  /\ Len(worklist) > 1
  /\ Top \in processed
  /\ in_worklist[cfg.dfn[Top]]

\* the initializers of v that elimination replaced by a no-op
Eliminated(v) ==
  {i \in 1 .. Len(cfg.code0[initlocals_bb]) :
     /\ code[initlocals_bb][i] # cfg.code0[initlocals_bb][i]
     /\ cfg.code0[initlocals_bb][i].dreg = VregOf(v)}

\* C20: on the flat-IR path every instruction that elimination replaces had
\* added at least 1 to the spill cost of its destination variable, and after
\* a run the spill cost of each variable is its accumulated increments minus
\* the number of its eliminated initializers, which is never below zero.
C20_NoUnderflow ==
  Returned /\ cfg.new_ir =>
    \A v \in Vars :
      /\ \A i \in Eliminated(v) : EventsOf(cfg.code0[initlocals_bb][i], v) >= 1
      /\ AccumulatedCost(cfg.num_bblocks, v) >= Cardinality(Eliminated(v))
      /\ vars[v].spill_costs = AccumulatedCost(cfg.num_bblocks, v) - Cardinality(Eliminated(v))
      /\ vars[v].spill_costs >= 0

\* two initializers of the same variable were eliminated and its spill cost
\* came down from 2 to 0
C20_Witness ==
  /\ Returned /\ cfg.new_ir
  /\ \E v \in Vars : /\ Cardinality(Eliminated(v)) = 2
                     /\ AccumulatedCost(cfg.num_bblocks, v) = 2
                     /\ vars[v].spill_costs = 0

\* the bit sets of block b that have been carved from the arena
SetsOf(b) == {gen_set[b], kill_set[b], live_out_set[b], live_in_set[b]} \ {NULL}

\* the blocks whose live_in has been carved
HasLiveIn == {b \in Blocks : live_in_set[b] # NULL}

\* the analysis has reserved the arena and not yet been left by a later call
Reserved == pc \in {"scan", "seed", "solve", "widen", "exc", "args", "opt", "done"}
            /\ cfg.num_varinfo > 0

\* C21: room is reserved for 4 bit sets per block; gen, kill and live_out of
\* every block are carved at the start, and the live_in of a block is carved
\* exactly once, whichever of the three places carves it.  At every point the
\* number of carved sets is at most 4 * num_bblocks, no two sets share
\* storage, and after the analysis every block has a live_in set.
C21_ArenaBudget ==
  /\ [](Reserved =>
          /\ \A b \in Blocks : gen_set[b] # NULL /\ kill_set[b] # NULL
                               /\ live_out_set[b] # NULL
          /\ mem = 3 * cfg.num_bblocks + Cardinality(HasLiveIn)
          /\ mem <= 4 * cfg.num_bblocks
          /\ \A b \in Blocks : /\ Cardinality(SetsOf(b)) =
                                    3 + (IF b \in HasLiveIn THEN 1 ELSE 0)
                               /\ SetsOf(b) \subseteq 0 .. mem - 1
          /\ \A b1, b2 \in Blocks : b1 # b2 => SetsOf(b1) \cap SetsOf(b2) = {}
          /\ pc \in {"widen", "exc", "args", "opt", "done"} => HasLiveIn = Blocks)
  /\ [][Reserved /\ pc # "done" =>
          /\ \A b \in HasLiveIn : live_in_set'[b] = live_in_set[b]
          /\ \A b \in Blocks : gen_set'[b] = gen_set[b] /\ kill_set'[b] = kill_set[b]
                               /\ live_out_set'[b] = live_out_set[b]]_vars_all

\* a finished analysis in which each of the three places carved a live_in: a
\* block without edges (the cleanup pass), a block with successors and no
\* predecessor (its own pass), and a block without successors that a
\* processed predecessor folded in; the sets were carved in that order's
\* reverse, and the arena is used up exactly
C21_Witness ==
  /\ Returned
  /\ mem = 4 * cfg.num_bblocks
  /\ \E a, b, c \in Blocks :
       /\ cfg.out_bb[a] = <<>> /\ cfg.in_bb[a] = <<>>
       /\ cfg.out_bb[b] # <<>> /\ cfg.in_bb[b] = <<>>
       /\ cfg.out_bb[c] = <<>> /\ b \in Preds(c)
       /\ live_in_set[c] < live_in_set[b]
       /\ live_in_set[b] < live_in_set[a]
====
